---- MODULE Spec2Model ----
(***************************************************************************)
(* Model of app/processing/image.py: the colour lookup table built at      *)
(* module load (generate_colormap_lut, COLORMAP_LUT) and the row pipeline  *)
(* process_row_to_png (clamp, validate, resize, colormap, encode), run by  *)
(* several workers that share the table, under the ingestion entry point   *)
(* of scripts/ingest.py, whose main returns 1 on a ValueError.             *)
(*                                                                         *)
(* Raw samples are floats in the code.  The model writes a sample as an    *)
(* integer number of halves (257 is 128.5), so that the truncation of      *)
(* astype(uint8) is visible.  NaN and infinite samples are not modelled.   *)
(***************************************************************************)
EXTENDS Integers, Sequences, FiniteSets, TLC

\* Longest raw row, and largest source_width, that the model enumerates.
MaxLen == 2

\* Largest target_width that the model enumerates.
MaxWidth == 3

\* Concurrent callers of process_row_to_png.
Workers == {"w1", "w2"}

\* Raw samples in halves: -10.0, 128.5 and 300.0.
Samples == {-20, 257, 600}

\* source_width values: 0 (invalid) and every enumerated row length.
SourceWidths == 0..MaxLen

\* target_width values: -1 and 0 (invalid) and the positive widths.
TargetWidths == (-1)..MaxWidth

\* The raw rows a caller may pass: every non-empty row up to MaxLen samples.
Rows == UNION {[1..n -> Samples] : n \in 1..MaxLen}

Channels == 1..3

\* The first eight bytes img.save(format='PNG') writes.
PNG_SIGNATURE == <<137, 80, 78, 71, 13, 10, 26, 10>>

\* COLOR_STOPS: (index, (r, g, b)).
COLOR_STOPS ==
    << [pos |-> 0,   color |-> <<0, 0, 128>>],
       [pos |-> 64,  color |-> <<0, 128, 255>>],
       [pos |-> 128, color |-> <<0, 255, 128>>],
       [pos |-> 192, color |-> <<255, 255, 0>>],
       [pos |-> 255, color |-> <<255, 0, 0>>] >>

VARIABLES
    stops,        \* the stop table generate_colormap_lut reads
    lut,          \* the table under construction, then COLORMAP_LUT
    segIdx,       \* segments written so far (the loop index i)
    modState,     \* "loading", "ready" (module imported) or "failed"
    sourceWidth,  \* the run's source_width
    targetWidth,  \* the run's target_width
    pc,           \* each worker's position in process_row_to_png
    loc,          \* each worker's locals
    mainState,    \* scripts/ingest.py main: "running", "returned0" or "returned1"
    mainErr       \* the exception main caught, <<>> if none

vars == <<stops, lut, segIdx, modState, sourceWidth, targetWidth, pc, loc,
          mainState, mainErr>>

----------------------------------------------------------------------------
(* generate_colormap_lut *)

\* np.zeros((256, 3), dtype=np.uint8)
ZeroLut == [i \in 0..255 |-> <<0, 0, 0>>]
\* A linspace without its endpoint: num samples of step (stop - start) / num.
LinspaceNoEndpoint(start, stop, num) ==
    [j \in 1..num |-> (start + ((j - 1) * (stop - start)) \div num) % 256]

\* np.linspace(start, stop, num, dtype=np.uint8) for num >= 1: float64 steps
\* start + i * (stop - start) / (num - 1), the last sample set to stop, floored
\* and cast to uint8.
Linspace(start, stop, num) ==
    [j \in 1..num |->
        IF num = 1 THEN start % 256
        ELSE IF j = num THEN stop % 256
        ELSE (start + ((j - 1) * (stop - start)) \div (num - 1)) % 256]

\* num_steps + 1 for the segment from stop s to stop s + 1.
NumSamples(st, s) == (st[s + 1].pos - st[s].pos) + 1

\* np.linspace raises ValueError for a negative number of samples.
LinspaceRaises(st, s) == NumSamples(st, s) < 0
\* A segment written one index late: lut[start_idx + 1:end_idx + 1] takes the
\* samples after the first.
WriteSegmentSkipsStart(l, st, s) ==
    LET lo   == st[s].pos
        hi   == st[s + 1].pos
        num  == NumSamples(st, s)
        vals == [c \in Channels |->
                    IF num >= 1
                    THEN Linspace(st[s].color[c], st[s + 1].color[c], num)
                    ELSE <<>>]
    IN  [i \in 0..255 |->
            IF lo < i /\ i <= hi
            THEN [c \in Channels |-> vals[c][i - lo + 1]]
            ELSE l[i]]

\* One pass of the loop body: lut[start_idx:end_idx + 1, channel] = linspace(...)
\* for the three channels of segment s.
WriteSegment(l, st, s) ==
    LET lo   == st[s].pos
        hi   == st[s + 1].pos
        num  == NumSamples(st, s)
        vals == [c \in Channels |->
                    IF num >= 1
                    THEN Linspace(st[s].color[c], st[s + 1].color[c], num)
                    ELSE <<>>]
    IN  [i \in 0..255 |->
            IF lo <= i /\ i <= hi
            THEN [c \in Channels |-> vals[c][i - lo + 1]]
            ELSE l[i]]

\* The segments of a stop table, in loop order.
Segments(st) == IF Len(st) >= 2 THEN 1..(Len(st) - 1) ELSE {}

----------------------------------------------------------------------------
(* process_row_to_png and its steps *)
\* A conversion to uint8 that wraps modulo 256 instead of saturating.
ClipU8Wrapping(h) == (h \div 2) % 256

\* np.clip(x, 0, 255).astype(np.uint8) on one sample given in halves.
ClipU8(h) ==
    LET c == IF h < 0 THEN 0 ELSE IF h > 255 * 2 THEN 255 * 2 ELSE h
    IN  c \div 2

\* grayscale = np.clip(np.array(row_data), 0, 255).astype(np.uint8)
ClampRow(row) == [j \in 1..Len(row) |-> ClipU8(row[j])]
\* A length check that only rejects rows that are too short.
LengthMismatchShortOnly(n, sw) == n < sw

\* len(grayscale) != source_width
LengthMismatch(n, sw) == n # sw

\* Pillow's 8-bit Lanczos coefficients for a 1 x inSize row resized to
\* 1 x outSize: per output pixel the first input pixel of its window and the
\* window's weights in units of 2^-22 (precompute_coeffs and
\* normalize_coeffs_8bpc for the Lanczos filter of support 3).
LanczosCoeffs ==
    <<1, 1>> :> << [xmin |-> 0, k |-> <<4194304>>] >> @@
    <<1, 2>> :> << [xmin |-> 0, k |-> <<4194304>>], [xmin |-> 0, k |-> <<4194304>>] >> @@
    <<1, 3>> :> << [xmin |-> 0, k |-> <<4194304>>], [xmin |-> 0, k |-> <<4194304>>], [xmin |-> 0, k |-> <<4194304>>] >> @@
    <<1, 4>> :> << [xmin |-> 0, k |-> <<4194304>>], [xmin |-> 0, k |-> <<4194304>>], [xmin |-> 0, k |-> <<4194304>>], [xmin |-> 0, k |-> <<4194304>>] >> @@
    <<2, 1>> :> << [xmin |-> 0, k |-> <<2097152, 2097152>>] >> @@
    <<2, 2>> :> << [xmin |-> 0, k |-> <<4194304, 0>>], [xmin |-> 0, k |-> <<0, 4194304>>] >> @@
    <<2, 3>> :> << [xmin |-> 0, k |-> <<4715023, -520719>>], [xmin |-> 0, k |-> <<2097152, 2097152>>], [xmin |-> 0, k |-> <<-520719, 4715023>>] >> @@
    <<2, 4>> :> << [xmin |-> 0, k |-> <<4930311, -736007>>], [xmin |-> 0, k |-> <<3217574, 976730>>], [xmin |-> 0, k |-> <<976730, 3217574>>], [xmin |-> 0, k |-> <<-736007, 4930311>>] >> @@
    <<3, 1>> :> << [xmin |-> 0, k |-> <<1296896, 1600512, 1296896>>] >> @@
    <<3, 2>> :> << [xmin |-> 0, k |-> <<2742406, 1754765, -302866>>], [xmin |-> 0, k |-> <<-302866, 1754765, 2742406>>] >> @@
    <<3, 3>> :> << [xmin |-> 0, k |-> <<4194304, 0, 0>>], [xmin |-> 0, k |-> <<0, 4194304, 0>>], [xmin |-> 0, k |-> <<0, 0, 4194304>>] >> @@
    <<3, 4>> :> << [xmin |-> 0, k |-> <<4492385, -392563, 94482>>], [xmin |-> 0, k |-> <<1740598, 3039405, -585699>>], [xmin |-> 0, k |-> <<-585699, 3039405, 1740598>>], [xmin |-> 0, k |-> <<94482, -392563, 4492385>>] >> @@
    <<4, 1>> :> << [xmin |-> 0, k |-> <<923235, 1173917, 1173917, 923235>>] >> @@
    <<4, 2>> :> << [xmin |-> 0, k |-> <<1946964, 1946964, 591023, -290647>>], [xmin |-> 0, k |-> <<-290647, 591023, 1946964, 1946964>>] >> @@
    <<4, 3>> :> << [xmin |-> 0, k |-> <<3177826, 1431249, -481605, 66835>>], [xmin |-> 0, k |-> <<-262144, 2359296, 2359296, -262144>>], [xmin |-> 0, k |-> <<66835, -481605, 1431249, 3177826>>] >> @@
    <<4, 4>> :> << [xmin |-> 0, k |-> <<4194304, 0, 0, 0>>], [xmin |-> 0, k |-> <<0, 4194304, 0, 0>>], [xmin |-> 0, k |-> <<0, 0, 4194304, 0>>], [xmin |-> 1, k |-> <<0, 0, 4194304>>] >>

\* PRECISION_BITS of Pillow's 8-bit resampling: 32 - 8 - 2.
PRECISION_BITS == 22

\* clip8: the accumulator shifted right by PRECISION_BITS, saturated to a byte.
Clip8(acc) ==
    LET v == acc \div (2 ^ PRECISION_BITS)
    IN  IF v < 0 THEN 0 ELSE IF v > 255 THEN 255 ELSE v

\* The weighted sum of one output pixel's window (weights k[1..n]).
RECURSIVE WindowSum(_, _, _, _)
WindowSum(gray, xmin, k, n) ==
    IF n = 0 THEN 0
    ELSE WindowSum(gray, xmin, k, n - 1) + gray[xmin + n] * k[n]

\* img.resize((target_width, 1), LANCZOS) raises ValueError for a size below 1.
ResizeRaises(tw) == tw < 1
\* A resize that hands the row back at its source width.
ResizeKeepsSourceWidth(gray, tw) == gray

\* resize_grayscale_row for target_width >= 1: a copy when the size is
\* unchanged, otherwise Pillow's horizontal 8-bit pass.
ResizeGrayscaleRow(gray, tw) ==
    IF tw = Len(gray) THEN gray
    ELSE LET kk == LanczosCoeffs[<<Len(gray), tw>>]
         IN  [xx \in 1..tw |->
                Clip8(2 ^ (PRECISION_BITS - 1)
                      + WindowSum(gray, kk[xx].xmin, kk[xx].k, Len(kk[xx].k)))]

\* apply_colormap: COLORMAP_LUT[grayscale] on a 2-D array, a fresh array.
ApplyColormap(l, gray2d) ==
    [r \in 1..Len(gray2d) |-> [j \in 1..Len(gray2d[r]) |-> l[gray2d[r][j]]]]

\* encode_to_png: the PNG as what it decodes to (signature, IHDR size, pixels).
EncodeToPng(rgb) ==
    [signature |-> PNG_SIGNATURE,
     width     |-> Len(rgb[1]),
     height    |-> Len(rgb),
     pixels    |-> rgb]

\* The ValueError of the length check, with both lengths of its message.
LengthError(sw, n) == <<"ValueError", "length", sw, n>>

\* The ValueError Pillow raises for a target size below 1.
SizeError == <<"ValueError", "size">>

\* A worker's locals before a call.
NoLocals == [row |-> <<>>, gray |-> <<>>, resized |-> <<>>, rgb |-> <<>>,
             result |-> <<>>, err |-> <<>>]

----------------------------------------------------------------------------
(* The state machine *)

Init ==
    /\ stops = COLOR_STOPS
    /\ lut = ZeroLut
    /\ segIdx = 0
    /\ modState = "loading"
    /\ sourceWidth \in SourceWidths
    /\ targetWidth \in TargetWidths
    /\ pc = [p \in Workers |-> "idle"]
    /\ loc = [p \in Workers |-> NoLocals]
    /\ mainState = "running"
    /\ mainErr = <<>>

\* One iteration of the loop over consecutive stops (import time).
LoadSegment ==
    /\ modState = "loading"
    /\ segIdx < Len(stops) - 1
    /\ IF LinspaceRaises(stops, segIdx + 1)
       THEN /\ modState' = "failed"
            /\ UNCHANGED <<lut, segIdx>>
       ELSE /\ lut' = WriteSegment(lut, stops, segIdx + 1)
            /\ segIdx' = segIdx + 1
            /\ UNCHANGED modState
    /\ UNCHANGED <<stops, sourceWidth, targetWidth, pc, loc, mainState, mainErr>>

\* The loop is over: return lut, bound to COLORMAP_LUT; the module is imported.
FinishLoad ==
    /\ modState = "loading"
    /\ segIdx >= Len(stops) - 1
    /\ modState' = "ready"
    /\ UNCHANGED <<stops, lut, segIdx, sourceWidth, targetWidth, pc, loc, mainState, mainErr>>

\* process_row_to_png(row, source_width, target_width) is entered and clamps.
Call(p, row) ==
    /\ modState = "ready"
    /\ mainState = "running"
    /\ pc[p] = "idle"
    /\ pc' = [pc EXCEPT ![p] = "clamped"]
    /\ loc' = [loc EXCEPT ![p] = [NoLocals EXCEPT !.row = row, !.gray = ClampRow(row)]]
    /\ UNCHANGED <<stops, lut, segIdx, modState, sourceWidth, targetWidth,
                   mainState, mainErr>>
\* The length check.
Validate(p) ==
    /\ mainState = "running"
    /\ pc[p] = "clamped"
    /\ IF LengthMismatch(Len(loc[p].gray), sourceWidth)
       THEN /\ pc' = [pc EXCEPT ![p] = "raised"]
            /\ loc' = [loc EXCEPT ![p].err = LengthError(sourceWidth, Len(loc[p].gray))]
       ELSE /\ pc' = [pc EXCEPT ![p] = "validated"]
            /\ UNCHANGED loc
    /\ UNCHANGED <<stops, lut, segIdx, modState, sourceWidth, targetWidth,
                   mainState, mainErr>>

\* Step 1: resized_gray = resize_grayscale_row(grayscale, target_width).
Resize(p) ==
    /\ mainState = "running"
    /\ pc[p] = "validated"
    /\ IF ResizeRaises(targetWidth)
       THEN /\ pc' = [pc EXCEPT ![p] = "raised"]
            /\ loc' = [loc EXCEPT ![p].err = SizeError]
       ELSE /\ pc' = [pc EXCEPT ![p] = "resized"]
            /\ loc' = [loc EXCEPT ![p].resized = ResizeGrayscaleRow(loc[p].gray, targetWidth)]
    /\ UNCHANGED <<stops, lut, segIdx, modState, sourceWidth, targetWidth,
                   mainState, mainErr>>
\* A colormap step that writes its pixels into one output buffer shared by all
\* the workers.
ColorizeIntoSharedBuffer(p) ==
    /\ mainState = "running"
    /\ pc[p] = "resized"
    /\ pc' = [pc EXCEPT ![p] = "colored"]
    /\ loc' = [q \in Workers |->
                 IF q = p \/ pc[q] = "colored"
                 THEN [loc[q] EXCEPT !.rgb = ApplyColormap(lut, <<loc[p].resized>>)]
                 ELSE loc[q]]
    /\ UNCHANGED <<stops, lut, segIdx, modState, sourceWidth, targetWidth,
                   mainState, mainErr>>

\* Step 2: rgb = apply_colormap(resized_gray.reshape(1, -1)).
Colorize(p) ==
    /\ mainState = "running"
    /\ pc[p] = "resized"
    /\ pc' = [pc EXCEPT ![p] = "colored"]
    /\ loc' = [loc EXCEPT ![p].rgb = ApplyColormap(lut, <<loc[p].resized>>)]
    /\ UNCHANGED <<stops, lut, segIdx, modState, sourceWidth, targetWidth,
                   mainState, mainErr>>

\* Step 3 and the return: (encode_to_png(rgb), target_width, 1).
Encode(p) ==
    /\ mainState = "running"
    /\ pc[p] = "colored"
    /\ pc' = [pc EXCEPT ![p] = "done"]
    /\ loc' = [loc EXCEPT ![p].result = <<EncodeToPng(loc[p].rgb), targetWidth, 1>>]
    /\ UNCHANGED <<stops, lut, segIdx, modState, sourceWidth, targetWidth,
                   mainState, mainErr>>

\* The ingestion takes the tuple a call returned and goes on to its next row.
ReturnImage(p) ==
    /\ mainState = "running"
    /\ pc[p] = "done"
    /\ pc' = [pc EXCEPT ![p] = "idle"]
    /\ loc' = [loc EXCEPT ![p] = NoLocals]
    /\ UNCHANGED <<stops, lut, segIdx, modState, sourceWidth, targetWidth,
                   mainState, mainErr>>

\* The ValueError a call raised leaves the ingestion (the ingestion itself is
\* taken to have no handler for it) and reaches main's `except ValueError`,
\* which prints it and returns 1: the run is over.
MainCatchesValueError(p) ==
    /\ mainState = "running"
    /\ pc[p] = "raised"
    /\ mainState' = "returned1"
    /\ mainErr' = loc[p].err
    /\ pc' = [pc EXCEPT ![p] = "idle"]
    /\ loc' = [loc EXCEPT ![p] = NoLocals]
    /\ UNCHANGED <<stops, lut, segIdx, modState, sourceWidth, targetWidth>>

\* The ingestion has no row left and returns; main prints the totals and
\* returns 0.
MainReturnsOk ==
    /\ mainState = "running"
    /\ modState = "ready"
    /\ \A p \in Workers : pc[p] = "idle"
    /\ mainState' = "returned0"
    /\ UNCHANGED <<stops, lut, segIdx, modState, sourceWidth, targetWidth, pc, loc,
                   mainErr>>

Next ==
    \/ LoadSegment
    \/ FinishLoad
    \/ \E p \in Workers, row \in Rows : Call(p, row)
    \/ \E p \in Workers : Validate(p)
    \/ \E p \in Workers : Resize(p)
    \/ \E p \in Workers : Colorize(p)
    \/ \E p \in Workers : Encode(p)
    \/ \E p \in Workers : ReturnImage(p)
    \/ \E p \in Workers : MainCatchesValueError(p)
    \/ MainReturnsOk

Spec == Init /\ [][Next]_vars

----------------------------------------------------------------------------
(* The functions as a whole, for stating results *)

\* generate_colormap_lut(): the loop run to its end over the first n segments.
RECURSIVE BuildLut(_, _)
BuildLut(st, n) ==
    IF n <= 0 THEN ZeroLut ELSE WriteSegment(BuildLut(st, n - 1), st, n)

GenerateColormapLut(st) == BuildLut(st, Len(st) - 1)

\* COLORMAP_LUT = generate_colormap_lut()
COLORMAP_LUT == GenerateColormapLut(COLOR_STOPS)

\* process_row_to_png run alone from entry to exit: the returned tuple, or the
\* error it raises.
ProcessRowToPng(row, sw, tw) ==
    LET gray == ClampRow(row)
    IN  IF LengthMismatch(Len(gray), sw) THEN LengthError(sw, Len(gray))
        ELSE IF ResizeRaises(tw) THEN SizeError
        ELSE <<EncodeToPng(ApplyColormap(COLORMAP_LUT,
                                         <<ResizeGrayscaleRow(gray, tw)>>)),
               tw, 1>>

\* The workers inside a call past the length check.
PastValidation == {"validated", "resized", "colored", "done"}

----------------------------------------------------------------------------
(* Claims *)

\* C1: a call whose raw row length differs from source_width, whatever its
\* samples and whatever target_width, ends in the length error carrying the
\* expected and the actual length; the resize, colormap and encode steps do
\* not run, nothing is returned, and the row keeps its length.
C1_LengthMismatchRejected ==
    \A p \in Workers :
        (pc[p] \notin {"idle", "clamped"} /\ Len(loc[p].row) # sourceWidth) =>
            /\ pc[p] = "raised"
            /\ loc[p].err = <<"ValueError", "length", sourceWidth, Len(loc[p].row)>>
            /\ Len(loc[p].gray) = Len(loc[p].row)
            /\ loc[p].resized = <<>>
            /\ loc[p].rgb = <<>>
            /\ loc[p].result = <<>>

\* C1 witness: a row longer than a positive source_width has been rejected.
C1_Witness ==
    \E p \in Workers :
        /\ pc[p] = "raised"
        /\ sourceWidth >= 1
        /\ Len(loc[p].row) > sourceWidth
        /\ loc[p].err = <<"ValueError", "length", sourceWidth, Len(loc[p].row)>>

\* C2: every intensity is a byte: a raw sample below 0 clamps to 0 and one
\* above 255 to 255 (never modulo 256), a sample in range truncates to its
\* integer part, and every value handed to apply_colormap after the resize is
\* an index of the table.
C2_IntensitiesAreBytes ==
    \A p \in Workers :
        /\ pc[p] # "idle" =>
              \A j \in 1..Len(loc[p].row) :
                  /\ loc[p].gray[j] \in 0..255
                  /\ loc[p].row[j] < 0 => loc[p].gray[j] = 0
                  /\ loc[p].row[j] > 2 * 255 => loc[p].gray[j] = 255
                  /\ (0 <= loc[p].row[j] /\ loc[p].row[j] <= 2 * 255) =>
                        (2 * loc[p].gray[j] <= loc[p].row[j]
                         /\ loc[p].row[j] < 2 * loc[p].gray[j] + 2)
        /\ pc[p] \in {"resized", "colored", "done"} =>
              \A j \in 1..Len(loc[p].resized) :
                  /\ loc[p].resized[j] \in 0..255
                  /\ loc[p].resized[j] \in DOMAIN lut

\* C2 witness: a row with a sample below 0 and a sample above 255 has been
\* resampled to another width and colorized.
C2_Witness ==
    \E p \in Workers :
        /\ pc[p] = "colored"
        /\ targetWidth # Len(loc[p].row)
        /\ \E j \in 1..Len(loc[p].row) : loc[p].row[j] < 0
        /\ \E j \in 1..Len(loc[p].row) : loc[p].row[j] > 2 * 255

\* C3: for a positive target_width the resized row has exactly target_width
\* samples whatever the row's length, as many pixels are colorized and
\* encoded, and a successful call returns (png, target_width, 1) for a PNG of
\* that width and height 1.
C3_WidthIsTargetWidth ==
    \A p \in Workers :
        /\ pc[p] \in {"resized", "colored", "done"} =>
              /\ targetWidth >= 1
              /\ Len(loc[p].resized) = targetWidth
        /\ pc[p] \in {"colored", "done"} =>
              /\ Len(loc[p].rgb) = 1
              /\ Len(loc[p].rgb[1]) = targetWidth
        /\ pc[p] = "done" =>
              /\ Len(loc[p].result) = 3
              /\ loc[p].result[2] = targetWidth
              /\ loc[p].result[3] = 1
              /\ loc[p].result[1].width = targetWidth
              /\ loc[p].result[1].height = 1
              /\ Len(loc[p].result[1].pixels[1]) = targetWidth

\* C3 witness: a call has returned an image whose width differs from the
\* length of its row.
C3_Witness ==
    \E p \in Workers :
        /\ pc[p] = "done"
        /\ Len(loc[p].row) # targetWidth
        /\ loc[p].result[2] = targetWidth

\* The direction a channel takes over segment s: 1 up, -1 down, 0 level.
Direction(st, s, c) ==
    IF st[s + 1].color[c] > st[s].color[c] THEN 1
    ELSE IF st[s + 1].color[c] < st[s].color[c] THEN -1 ELSE 0

\* v lies between a and b, in either order.
Between(v, a, b) == (a <= v /\ v <= b) \/ (b <= v /\ v <= a)

\* The step on which generate_colormap_lut returns its table.
TableReturned == modState = "loading" /\ modState' = "ready"

\* lut[0] is dark blue and lut[255] is red.
EndsAtDarkBlueAndRed(l) == l[0] = <<0, 0, 128>> /\ l[255] = <<255, 0, 0>>

\* Over every segment every channel moves strictly toward the next stop's
\* value at each intensity, within the two endpoint values.
StrictlyTowardNextStop(l, st) ==
    \A s \in Segments(st), c \in Channels :
        \A i \in st[s].pos..(st[s + 1].pos - 1) :
            /\ Between(l[i][c], st[s].color[c], st[s + 1].color[c])
            /\ Between(l[i + 1][c], st[s].color[c], st[s + 1].color[c])
            /\ \/ (st[s + 1].color[c] >= st[s].color[c] /\ l[i + 1][c] > l[i][c])
               \/ (st[s + 1].color[c] <= st[s].color[c] /\ l[i + 1][c] < l[i][c])

\* Over every segment a channel whose stop values differ moves strictly toward
\* the next stop's value, a channel whose stop values are equal stays level,
\* and no value leaves the range of the two endpoint values.
TowardNextStopOrLevel(l, st) ==
    \A s \in Segments(st), c \in Channels :
        \A i \in st[s].pos..(st[s + 1].pos - 1) :
            /\ Between(l[i][c], st[s].color[c], st[s + 1].color[c])
            /\ Between(l[i + 1][c], st[s].color[c], st[s + 1].color[c])
            /\ Direction(st, s, c) = 1 => l[i + 1][c] > l[i][c]
            /\ Direction(st, s, c) = -1 => l[i + 1][c] < l[i][c]
            /\ Direction(st, s, c) = 0 => l[i + 1][c] = l[i][c]

\* C4 as stated: in the table generate_colormap_lut returns, lut[0] is dark
\* blue, lut[255] is red, and over every segment every channel moves strictly
\* toward the next stop's value, within the two endpoint values.
C4_StrictlyTowardNextStop ==
    [][TableReturned =>
          (EndsAtDarkBlueAndRed(lut') /\ StrictlyTowardNextStop(lut', stops))]_vars

\* C4 amended: in the table generate_colormap_lut returns, lut[0] is dark
\* blue, lut[255] is red, and over every segment a channel whose two stop
\* values differ moves strictly toward the next stop's value at each
\* intensity, a channel whose two stop values are equal stays at that value,
\* and no value leaves the range of the two endpoint values.
C4_TowardNextStopOrLevel ==
    [][TableReturned =>
          (EndsAtDarkBlueAndRed(lut') /\ TowardNextStopOrLevel(lut', stops))]_vars

\* C4 witness: the table is built and holds a rising, a falling and a level
\* channel.
C4_Witness ==
    /\ modState = "ready"
    /\ lut[1][2] > lut[0][2]
    /\ lut[65][3] < lut[64][3]
    /\ lut[1][1] = lut[0][1]
    /\ lut[255] = <<255, 0, 0>>

\* The orders in which the segments of a stop table can be written.
SegmentOrders(st) ==
    {o \in [Segments(st) -> Segments(st)] :
        \A a, b \in Segments(st) : a # b => o[a] # o[b]}

\* The table after writing the first n segments of order o.
RECURSIVE BuildInOrder(_, _, _)
BuildInOrder(st, o, n) ==
    IF n <= 0 THEN ZeroLut ELSE WriteSegment(BuildInOrder(st, o, n - 1), st, o[n])

\* The tables the compiled-in stops give over all segment orders.
TablesOverAllOrders ==
    {BuildInOrder(COLOR_STOPS, o, Len(COLOR_STOPS) - 1) : o \in SegmentOrders(COLOR_STOPS)}

\* What one pass of the loop does to the table.
C5_SegmentStep ==
    (modState = "loading" /\ segIdx' = segIdx + 1) =>
        LET lo == stops[segIdx + 1].pos
            hi == stops[segIdx + 2].pos
        IN  /\ NumSamples(stops, segIdx + 1) = (hi - lo) + 1
            /\ \A i \in 0..255 : (i < lo \/ i > hi) => lut'[i] = lut[i]
            /\ lut'[lo] = stops[segIdx + 1].color
            /\ lut'[hi] = stops[segIdx + 2].color
            /\ segIdx >= 1 => lut'[lo] = lut[lo]

\* C5: each segment writes the inclusive range [low.position, high.position]
\* from high.position - low.position steps and nothing outside it; at a shared
\* stop position the segment starting there writes the value the segment
\* ending there wrote, the stop's color; and the finished table is the one
\* every order of writing the segments gives.
C5_SharedBoundariesAgree ==
    /\ [][C5_SegmentStep]_vars
    /\ [](modState = "ready" => TablesOverAllOrders = {lut})

\* C5 witness: the loop has overwritten a shared boundary and finished.
C5_Witness ==
    /\ modState = "ready"
    /\ segIdx = Len(stops) - 1
    /\ segIdx >= 2
    /\ lut[stops[2].pos] = stops[2].color

\* The interpolated value of channel c at intensity i of segment s, rounded to
\* the nearest integer.
RoundedInterpolation(st, s, c, i) ==
    LET div   == st[s + 1].pos - st[s].pos
        delta == st[s + 1].color[c] - st[s].color[c]
    IN  (2 * (st[s].color[c] * div + (i - st[s].pos) * delta) + div) \div (2 * div)

\* C6 as stated: every entry of the table generate_colormap_lut returns is the
\* linear interpolation between its two stops rounded to the nearest integer,
\* within the byte range.
C6_EntriesRoundedToNearest ==
    [][TableReturned =>
          \A s \in Segments(stops), c \in Channels :
              \A i \in stops[s].pos..stops[s + 1].pos :
                  /\ lut'[i][c] \in 0..255
                  /\ lut'[i][c] = RoundedInterpolation(stops, s, c, i)]_vars

\* C8 as stated: with a target width of zero or less no call gets past the
\* checks to the resize step, and none fails inside it.
C8_NonPositiveWidthRejectedEarly ==
    targetWidth <= 0 =>
        \A p \in Workers :
            /\ pc[p] \notin PastValidation
            /\ loc[p].err # SizeError

\* Only worker p's position and locals may differ across the step.
OnlyTouches(p) ==
    \A q \in Workers \ {p} : pc'[q] = pc[q] /\ loc'[q] = loc[q]

\* A step of worker p.
StepOf(p) == pc'[p] # pc[p] \/ loc'[p] # loc[p]

\* C9: under any interleaving of the workers' calls, the table is complete
\* before the first call starts and is never written afterwards, a step of one
\* call touches no other call's buffers, and every call ends with what the
\* same input gives when run alone.
C9_CallsIndependentOfInterleaving ==
    /\ [](\A p \in Workers :
            /\ pc[p] # "idle" => (modState = "ready" /\ lut = COLORMAP_LUT)
            /\ pc[p] = "done" =>
                  loc[p].result = ProcessRowToPng(loc[p].row, sourceWidth, targetWidth)
            /\ pc[p] = "raised" =>
                  loc[p].err = ProcessRowToPng(loc[p].row, sourceWidth, targetWidth))
    /\ [][modState = "ready" => (lut' = lut /\ modState' = "ready")]_vars
    /\ [][\A p \in Workers : StepOf(p) => OnlyTouches(p)]_vars

\* C9 witness: two calls on different rows are in flight together, one already
\* returned, the other colorized.
C9_Witness ==
    \E p, q \in Workers :
        /\ p # q
        /\ pc[p] = "done"
        /\ pc[q] = "colored"
        /\ loc[p].row # loc[q].row
        /\ loc[p].rgb # loc[q].rgb

====
